---------------------------- MODULE Spec2Model ----------------------------
(***************************************************************************)
(* ndstrim: validation and trimming of Nintendo DS(i) ROM images.          *)
(*                                                                         *)
(* The model follows src/src/crc.rs (checksum), src/src/nds.rs (header,    *)
(* NdsFile::open / trim / trim_with_name) and src/src/main.rs (the batch   *)
(* loop).  Files are kept byte-exact at the offsets of the real header     *)
(* layout (0x1000 bytes); a file is its length and the bytes that are not  *)
(* zero, so that images with 32-bit declared sizes stay small.             *)
(*                                                                         *)
(* Sizes and offsets are u64 in the program.  They are kept here as two    *)
(* limbs <<hi, lo>> of value hi * 2^16 + lo, since a u32 field plus 0x88   *)
(* does not fit the model checker's machine integers.                      *)
(***************************************************************************)
EXTENDS Integers, Sequences, FiniteSets, TLC

VARIABLES
    fs,       \* the file system: path |-> file, for the paths that exist
    handle,   \* the NdsFile the caller holds, if any
    last,     \* the last NdsFile operation and its result
    cli,      \* main: the parsed command line
    env,      \* main: for each file of the batch, whether set_len / create fails
    fs0,      \* main: the file system the batch started on
    idx,      \* main: the position of the loop in cli.files
    out       \* main: the lines printed, in order

vars == <<fs, handle, last, cli, env, fs0, idx, out>>

----------------------------------------------------------------------------
(* u64 values as limbs                                                     *)

Limb == 256 * 256

U(n) == <<n \div Limb, n % Limb>>

Zero == <<0, 0>>

Add(a, b) ==
    LET s == a[2] + b[2]
    IN  <<a[1] + b[1] + (s \div Limb), s % Limb>>

\* a - b for b <= a
Sub(a, b) ==
    IF a[2] >= b[2] THEN <<a[1] - b[1], a[2] - b[2]>>
    ELSE <<a[1] - b[1] - 1, a[2] + Limb - b[2]>>

Lt(a, b) == a[1] < b[1] \/ (a[1] = b[1] /\ a[2] < b[2])

Le(a, b) == a = b \/ Lt(a, b)

Min(a, b) == IF Lt(a, b) THEN a ELSE b

\* The one element of a singleton.  Only({e(x) : x \in {v}}) is e(v) with v
\* computed once, however often e uses it.
Only(S) == CHOOSE x \in S : TRUE

----------------------------------------------------------------------------
(* Bit operations on naturals                                              *)

RECURSIVE XorBits(_, _)
XorBits(a, b) ==
    IF a = 0 THEN b
    ELSE IF b = 0 THEN a
    ELSE 2 * XorBits(a \div 2, b \div 2) + ((a + b) % 2)

\* The xor of two 4-bit values, tabulated once.
XorNibble == [a \in 0..15 |-> [b \in 0..15 |-> XorBits(a, b)]]

\* a ^ b, four bits at a time.
RECURSIVE Xor(_, _)
Xor(a, b) ==
    IF a = 0 THEN b
    ELSE IF b = 0 THEN a
    ELSE 16 * Xor(a \div 16, b \div 16) + XorNibble[a % 16][b % 16]

----------------------------------------------------------------------------
(* Files: the length and the non-zero bytes, by offset                     *)

ByteAt(f, off) == IF off \in DOMAIN f.data THEN f.data[off] ELSE 0

EmptyFile == [len |-> Zero, data |-> <<>>]

\* A byte buffer is kept like a file: its length n and its non-zero bytes nz,
\* by index from 1.
Buf(seq) ==
    [n  |-> Len(seq),
     nz |-> [k \in {j \in 1..Len(seq) : seq[j] # 0} |-> seq[k]]]

BufAt(buf, k) == IF k \in DOMAIN buf.nz THEN buf.nz[k] ELSE 0

\* The slice buf[from .. from + n] (from counts from 0).
Slice(buf, from, n) ==
    [n  |-> n,
     nz |-> [k \in {j - from : j \in {i \in DOMAIN buf.nz : from < i /\ i <= from + n}}
                |-> buf.nz[k + from]]]

\* File::read_exact: n bytes at pos, or UnexpectedEof when fewer are left.
ReadExact(f, pos, n) ==
    IF Lt(f.len, Add(pos, U(n))) THEN [ok |-> FALSE]
    ELSE LET from == {x \in DOMAIN f.data : Le(pos, x) /\ Lt(x, Add(pos, U(n)))}
         IN  [ok  |-> TRUE,
              buf |-> [n  |-> n,
                       nz |-> [k \in {Sub(x, pos)[2] + 1 : x \in from} |->
                                  f.data[Add(pos, U(k - 1))]]],
              pos |-> Add(pos, U(n))]

\* File::set_len: the bytes below n are kept, a longer file is zero-filled.
SetLen(f, n) ==
    [len  |-> n,
     data |-> [o \in {x \in DOMAIN f.data : Lt(x, n)} |-> f.data[o]]]

\* The bytes io::copy moves out of f.take(limit), reading from pos.
CopyFrom(f, pos, limit) ==
    LET n == IF Lt(pos, f.len) THEN Min(limit, Sub(f.len, pos)) ELSE Zero
        from == {x \in DOMAIN f.data : Le(pos, x) /\ Lt(x, Add(pos, n))}
    IN  [len  |-> n,
         data |-> [o \in {Sub(x, pos) : x \in from} |-> f.data[Add(o, pos)]]]

\* The file system with path p holding file f.
Put(files, p, f) ==
    [q \in DOMAIN files \cup {p} |-> IF q = p THEN f ELSE files[q]]

----------------------------------------------------------------------------
(* nds.rs: the layout of NtrTwlHeader                                      *)

\* Field offsets, from the field sizes of NtrTwlHeader in declaration order.
LogoLen       == 156
OffUnitcode   == 12 + 4 + 2
OffNtrRomSize == OffUnitcode + 1 + 109
OffLogo       == OffNtrRomSize + 4 + 4 + 56
OffLogoCrc    == OffLogo + LogoLen
OffHeaderCrc  == OffLogoCrc + 2
OffTwlRomSize == OffHeaderCrc + 2 + 32 + 144
HeaderSize    == OffTwlRomSize + 4 + 3564

CrcLen   == 350
LOGO_CRC == 53078
RSA_SIZE == 136
RSA_MAGIC == Buf(<<97, 99>>)

----------------------------------------------------------------------------
(* Input images: the parameters, and the header bytes before the checksum  *)

MaxPad == 2

Writes16(off, v) == {<<U(off), v % 256>>, <<U(off + 1), v \div 256>>}

Writes32(off, v) == Writes16(off, v[2]) \cup Writes16(off + 2, v[1])

\* A file of length len holding the writes that fall inside it.
FileOf(len, writes) ==
    LET kept == {w \in writes : Lt(w[1], len) /\ w[2] # 0}
    IN  [len  |-> len,
         data |-> [o \in {w[1] : w \in kept} |->
                      (CHOOSE w \in kept : w[1] = o)[2]]]

\* A logo of checksum 0xCF56 (its last two bytes are 4, 104), or a blank one.
LogoWrites(ok) ==
    IF ok THEN {<<U(OffLogo + LogoLen - 2), 4>>, <<U(OffLogo + LogoLen - 1), 104>>}
    ELSE {}

\* The header fields of an image, the header checksum left out.
FieldWrites(p) ==
    {<<U(OffUnitcode), p.unit>>}
        \cup Writes32(OffNtrRomSize, p.rom)
        \cup LogoWrites(p.logoOk)
        \cup Writes16(OffLogoCrc, p.logoField)
        \cup Writes32(OffTwlRomSize, p.twl)

\* The first CrcLen bytes of the header of an image.
HeaderPrefix(p) ==
    Slice(ReadExact(FileOf(U(HeaderSize), FieldWrites(p)), Zero, HeaderSize).buf,
          0, CrcLen)

MaxU32 == <<Limb - 1, Limb - 1>>

Roms == {U(2048), U(HeaderSize), MaxU32}

Twls == {U(2048), U(6144)}

Pads == (0..MaxPad) \cup {RSA_SIZE + d : d \in 0..MaxPad}

\* File lengths around a declared size and around the header's end.
LegacyLens(rom) ==
    {Add(rom, U(d)) : d \in Pads} \cup {U(HeaderSize + d) : d \in 0..MaxPad}

DualLens(twl) ==
    {Add(twl, U(d)) : d \in 0..MaxPad} \cup {U(HeaderSize + d) : d \in 0..MaxPad}

Good(unit, rom, twl, len, marker) ==
    [unit |-> unit, rom |-> rom, twl |-> twl, len |-> len, marker |-> marker,
     logoOk |-> TRUE, crcOk |-> TRUE, logoField |-> LOGO_CRC]

LegacyParams ==
    UNION {{Good(0, r, U(6144), l, m) : m \in BOOLEAN, l \in LegacyLens(r)} :
              r \in Roms}

DualParams ==
    UNION {{Good(u, r, t, l, m) :
               u \in {2, 3}, r \in {U(HeaderSize), MaxU32},
               m \in BOOLEAN, l \in DualLens(t)} :
              t \in Twls}

\* Headers with every combination of a right or wrong header checksum, a
\* right or wrong logo, and a logo_checksum field that is right, zero, or
\* the checksum of the blank logo.
FlagParams ==
    [unit : {0, 2}, rom : {U(HeaderSize)}, twl : {U(6144)},
     len : {U(HeaderSize + 2)}, marker : {FALSE},
     logoOk : BOOLEAN, crcOk : BOOLEAN, logoField : {LOGO_CRC, 0, 57685}]

ImageParams == LegacyParams \cup DualParams \cup FlagParams

----------------------------------------------------------------------------
(* crc.rs                                                                  *)

POLYNOMIAL == 40961

RECURSIVE crc_bits(_, _)
crc_bits(crc, n) ==
    IF n = 0 THEN crc
    ELSE LET carry   == (crc % 2) > 0
             shifted == crc \div 2
         IN  crc_bits(IF carry THEN Xor(shifted, POLYNOMIAL) ELSE shifted, n - 1)

\* One byte of the outer loop: the xor into the low bits, then the 8 shifts.
crc_byte(crc, byte) == crc_bits(Xor(crc, byte), 8)

\* The loop over the bytes data[lo..hi], left to right.  It is split in
\* halves, and the left half's value is bound before the right half runs on
\* it, which keeps the evaluation shallow.
RECURSIVE crc_bytes(_, _, _, _)
crc_bytes(crc, data, lo, hi) ==
    IF lo > hi THEN crc
    ELSE IF lo = hi THEN crc_byte(crc, BufAt(data, lo))
    ELSE LET mid == (lo + hi) \div 2
         IN  Only({crc_bytes(c, data, mid + 1, hi) :
                      c \in {crc_bytes(crc, data, lo, mid)}})

crc_all(data) == crc_bytes(65535, data, 1, data.n)

\* The checksums of the header and logo byte strings of the input images,
\* computed once; checksum looks a byte string up here before computing it.
ChecksumTable ==
    [data \in {HeaderPrefix(p) : p \in ImageParams}
              \cup {Slice(HeaderPrefix(p), OffLogo, LogoLen) :
                       p \in ImageParams} |->
        crc_all(data)]

checksum(data) ==
    IF data \in DOMAIN ChecksumTable THEN ChecksumTable[data] ELSE crc_all(data)

----------------------------------------------------------------------------
(* nds.rs: NtrTwlHeader                                                    *)

\* Little-endian fields of a buffer (off counts from 0).
U16At(buf, off) == BufAt(buf, off + 1) + 256 * BufAt(buf, off + 2)

U32At(buf, off) == <<U16At(buf, off + 2), U16At(buf, off)>>

\* bincode::deserialize into NtrTwlHeader: the fields the program reads.
deserialize(buf) ==
    [unitcode          |-> BufAt(buf, OffUnitcode + 1),
     ntr_rom_size      |-> U32At(buf, OffNtrRomSize),
     nintendo_logo     |-> Slice(buf, OffLogo, LogoLen),
     nintendo_logo_crc |-> U16At(buf, OffLogoCrc),
     header_crc        |-> U16At(buf, OffHeaderCrc),
     ntr_twl_rom_size  |-> U32At(buf, OffTwlRomSize)]

\* Mutant: the logo is checked against the header's own logo_checksum field.
is_logo_valid_by_field(header) ==
    checksum(header.nintendo_logo) = header.nintendo_logo_crc

is_logo_valid(header) == checksum(header.nintendo_logo) = LOGO_CRC

is_ntr_only(header) == header.unitcode = 0

\* NtrTwlHeader::from_file on a handle at offset 0.
from_file(f) ==
    Only({IF ~r.ok THEN [res |-> "Io"]
          ELSE Only({IF header.header_crc # checksum(Slice(r.buf, 0, CrcLen))
                        \/ ~is_logo_valid(header)
                     THEN [res |-> "BadHeader"]
                     ELSE [res |-> "Ok", header |-> header, pos |-> r.pos] :
                        header \in {deserialize(r.buf)}}) :
             r \in {ReadExact(f, Zero, HeaderSize)}})

----------------------------------------------------------------------------
(* nds.rs: NdsFile                                                         *)

NoHandle == [live |-> FALSE]

has_cert(f, offset) ==
    Only({IF ~r.ok THEN [res |-> "UnexpectedEof"]
          ELSE [res |-> "Ok", cert |-> (r.buf = RSA_MAGIC), pos |-> r.pos] :
             r \in {ReadExact(f, offset, 2)}})

\* Mutant: the certificate size is added in 32 bits, wrapping.
compute_trimmed_size_u32(f, header, pos) ==
    IF ~is_ntr_only(header)
    THEN [res |-> "Ok", size |-> header.ntr_twl_rom_size, pos |-> pos]
    ELSE LET trimsize == header.ntr_rom_size
             sum      == Add(trimsize, U(RSA_SIZE))
         IN  Only({IF c.res = "UnexpectedEof" THEN [res |-> "AlreadyTrimmed"]
                   ELSE [res  |-> "Ok",
                         size |-> IF c.cert THEN <<sum[1] % Limb, sum[2]>>
                                            ELSE trimsize,
                         pos  |-> c.pos] :
                      c \in {has_cert(f, trimsize)}})

compute_trimmed_size(f, header, pos) ==
    IF ~is_ntr_only(header)
    THEN [res |-> "Ok", size |-> header.ntr_twl_rom_size, pos |-> pos]
    ELSE LET trimsize == header.ntr_rom_size
         IN  Only({IF c.res = "UnexpectedEof" THEN [res |-> "AlreadyTrimmed"]
                   ELSE [res  |-> "Ok",
                         size |-> IF c.cert THEN Add(trimsize, U(RSA_SIZE))
                                            ELSE trimsize,
                         pos  |-> c.pos] :
                      c \in {has_cert(f, trimsize)}})

\* Mutant: file_size < trimmed_size.
is_trimmed_strict(file_size, trimmed_size) == Lt(file_size, trimmed_size)

\* file_size <= trimmed_size
is_trimmed(file_size, trimmed_size) == Le(file_size, trimmed_size)

\* NdsFile::open, once the header is read: h is from_file's result.
open_file(path, f, h) ==
    IF h.res # "Ok" THEN [res |-> h.res]
    ELSE Only({IF t.res # "Ok" THEN [res |-> t.res]
               ELSE IF is_trimmed(f.len, t.size) THEN [res |-> "AlreadyTrimmed"]
               ELSE [res    |-> "Ok",
                     handle |-> [live         |-> TRUE,
                                 path         |-> path,
                                 pos          |-> t.pos,
                                 file_size    |-> f.len,
                                 trimmed_size |-> t.size]] :
                  t \in {compute_trimmed_size(f, h.header, h.pos)}})

open(files, path) ==
    IF path \notin DOMAIN files THEN [res |-> "Io"]
    ELSE Only({open_file(path, files[path], h) : h \in {from_file(files[path])}})

\* NdsFile::trim; fail: set_len fails.
trim(files, h, fail) ==
    IF fail THEN [res |-> "Io", fs |-> files, handle |-> h]
    ELSE [res    |-> "Ok",
          fs     |-> [files EXCEPT ![h.path] = SetLen(@, h.trimmed_size)],
          handle |-> h]

\* Mutant: no seek, the copy starts where the handle stands.
copy_start_unsought(h) == h.pos

\* Where trim_with_name reads from: the handle is sought back to the start.
copy_start(h) == Zero

\* NdsFile::trim_with_name; fail: File::create fails.  File::create empties
\* the file dest names before anything is read.
trim_with_name(files, h, dest, fail) ==
    IF fail THEN [res |-> "Io", fs |-> files, handle |-> h]
    ELSE Only({[res    |-> "Ok",
                fs     |-> Put(files, dest, copied),
                handle |-> [h EXCEPT !.pos = Add(copy_start(h), copied.len)]] :
                   copied \in {CopyFrom(Put(files, dest, EmptyFile)[h.path],
                                        copy_start(h), h.trimmed_size)}})

----------------------------------------------------------------------------
(* main.rs: paths                                                          *)

\* A path is its file name split at the dots: a.trim.nds is <<"a","trim","nds">>.
\* Path::with_extension replaces what follows the last dot, or appends.
with_extension(path, extension) ==
    (IF Len(path) > 1 THEN SubSeq(path, 1, Len(path) - 1) ELSE path) \o extension

DefaultExtension == <<"trim", "nds">>

PathA == <<"a", "nds">>

----------------------------------------------------------------------------
(* Input images: the files                                                 *)

\* An image: the header fields and checksum, the two bytes at offset rom
\* (the marker, or padding) and a last byte of padding.
MkImage(p) ==
    LET crc    == checksum(HeaderPrefix(p))
        stored == IF p.crcOk THEN crc ELSE (crc + 1) % Limb
        probe  == IF p.marker
                  THEN {<<p.rom, BufAt(RSA_MAGIC, 1)>>,
                        <<Add(p.rom, U(1)), BufAt(RSA_MAGIC, 2)>>}
                  ELSE {<<p.rom, 255>>, <<Add(p.rom, U(1)), 255>>}
        pad    == IF p.len = Zero THEN {} ELSE {<<Sub(p.len, U(1)), 255>>}
    IN  FileOf(p.len, pad \cup probe \cup FieldWrites(p)
                          \cup Writes16(OffHeaderCrc, stored))

Images == {MkImage(p) : p \in ImageParams}

----------------------------------------------------------------------------
(* The NdsFile operations, called by a caller that holds one handle        *)

ApiPaths == {PathA, with_extension(PathA, DefaultExtension)}

NoCli == [files |-> <<>>]

MainIdle == /\ cli = NoCli /\ env = <<>> /\ fs0 = <<>> /\ idx = 0 /\ out = <<>>

Init ==
    /\ \E img \in Images : fs = [p \in {PathA} |-> img]
    /\ handle = NoHandle
    /\ last = [op |-> "none"]
    /\ MainIdle

Open ==
    /\ ~handle.live
    /\ \E p \in ApiPaths :
        \E r \in {open(fs, p)} :
            /\ handle' = IF r.res = "Ok" THEN r.handle ELSE NoHandle
            /\ last' = [op |-> "open", path |-> p, res |-> r.res]
    /\ UNCHANGED <<fs, cli, env, fs0, idx, out>>

Trim ==
    /\ handle.live
    /\ \E fail \in BOOLEAN :
        \E r \in {trim(fs, handle, fail)} :
            /\ fs' = r.fs
            /\ handle' = r.handle
            /\ last' = [op |-> "trim", path |-> handle.path, res |-> r.res]
    /\ UNCHANGED <<cli, env, fs0, idx, out>>

TrimWithName(dest) ==
    /\ handle.live
    /\ \E fail \in BOOLEAN :
        \E r \in {trim_with_name(fs, handle, dest, fail)} :
            /\ fs' = r.fs
            /\ handle' = r.handle
            /\ last' = [op |-> "trim_with_name", path |-> dest, res |-> r.res]
    /\ UNCHANGED <<cli, env, fs0, idx, out>>

\* trim_with_name to a path other than the one the handle was opened on.
CopyOther == \E dest \in ApiPaths : handle.live /\ dest # handle.path /\ TrimWithName(dest)

\* trim_with_name to the path the handle was opened on.
CopySelf == handle.live /\ TrimWithName(handle.path)

\* The caller releases the handle.
Drop ==
    /\ handle.live
    /\ handle' = NoHandle
    /\ last' = [op |-> "drop", path |-> handle.path, res |-> "Ok"]
    /\ UNCHANGED <<fs, cli, env, fs0, idx, out>>

Next == Open \/ Trim \/ CopyOther \/ CopySelf \/ Drop

Spec == Init /\ [][Next]_vars

\* Callers that never name the source as the destination.
NextDistinct == Open \/ Trim \/ CopyOther \/ Drop

SpecDistinct == Init /\ [][NextDistinct]_vars

----------------------------------------------------------------------------
(* main.rs: the batch loop                                                 *)

MaxBatch == 2

ErrLine(src, e) == [stream |-> "stderr", path |-> src, error |-> e]

OutLine(dest, h) ==
    [stream |-> "stdout", path |-> dest,
     from |-> h.file_size, to |-> h.trimmed_size]

main_dest(c, src) ==
    IF c.inplace THEN src ELSE with_extension(src, c.extension)

\* The body of the loop for one path: the file system it leaves and the line
\* it prints.  fail: set_len (in place) or File::create (copy) fails.
main_body(files, c, src, fail) ==
    LET dest == main_dest(c, src)
    IN  Only({IF o.res # "Ok" THEN [fs |-> files, line |-> ErrLine(src, o.res)]
              ELSE IF c.simulate
                   THEN [fs |-> files, line |-> OutLine(dest, o.handle)]
              ELSE Only({IF r.res # "Ok"
                         THEN [fs |-> r.fs, line |-> ErrLine(src, r.res)]
                         ELSE [fs |-> r.fs, line |-> OutLine(dest, o.handle)] :
                            r \in {IF c.inplace
                                   THEN trim(files, o.handle, fail)
                                   ELSE trim_with_name(files, o.handle, dest, fail)}}) :
                 o \in {open(files, src)}})

\* Mutant: a failure ends the loop.
loop_next_abort(i, n, failed) == IF failed THEN n + 1 ELSE i + 1

\* Where the loop goes after the body for files[i] of n: to the next path,
\* by `continue` after a failure and by the end of the body otherwise.
loop_next(i, n, failed) == i + 1

PathB == <<"b", "nds">>

MainPaths == {PathA, with_extension(PathA, DefaultExtension), PathB}

\* The images a.nds holds: the legacy image of 0x1000 bytes declaring 0x800,
\* a legacy image with and one without the marker, a dual-mode image.
MainImages ==
    {MkImage(Good(0, U(2048), U(6144), U(HeaderSize), FALSE)),
     MkImage(Good(0, U(HeaderSize), U(6144), U(HeaderSize + RSA_SIZE + 2), TRUE)),
     MkImage(Good(0, U(HeaderSize), U(6144), U(HeaderSize + 2), FALSE)),
     MkImage(Good(2, U(HeaderSize), U(6144), U(6144 + 2), FALSE))}

OtherImage == MkImage(Good(3, U(HeaderSize), U(6144), U(6144 + 1), FALSE))

BadImage ==
    MkImage([unit |-> 0, rom |-> U(HeaderSize), twl |-> U(6144),
             len |-> U(HeaderSize + 2), marker |-> FALSE,
             logoOk |-> FALSE, crcOk |-> TRUE, logoField |-> LOGO_CRC])

\* a.nds and b.nds (not an image) exist; a.trim.nds may.
Worlds ==
    {Put(<<>>, PathB, BadImage)} \X MainImages \X {TRUE, FALSE}

WorldFs(w) ==
    LET base == Put(w[1], PathA, w[2])
    IN  IF w[3] THEN Put(base, with_extension(PathA, DefaultExtension), OtherImage)
        ELSE base

Batches == UNION {[1..n -> MainPaths] : n \in 1..MaxBatch}

\* --extension matters only when a copy is written: it is varied there.
Clis ==
    {c \in [files : Batches, simulate : BOOLEAN, inplace : BOOLEAN,
            extension : {DefaultExtension, <<"nds">>}] :
        c.inplace => c.extension = DefaultExtension}

InitMain ==
    /\ cli \in Clis
    /\ env \in [1..Len(cli.files) -> BOOLEAN]
    /\ \E w \in Worlds : fs0 = WorldFs(w)
    /\ fs = fs0
    /\ idx = 1
    /\ out = <<>>
    /\ handle = NoHandle
    /\ last = [op |-> "none"]

\* One iteration of `for src in cli.files.iter()`.
MainStep ==
    /\ idx \in 1..Len(cli.files)
    /\ \E r \in {main_body(fs, cli, cli.files[idx], env[idx])} :
        /\ fs' = r.fs
        /\ out' = Append(out, r.line)
        /\ idx' = loop_next(idx, Len(cli.files), r.line.stream = "stderr")
    /\ UNCHANGED <<handle, last, cli, env, fs0>>

NextMain == MainStep

\* The program runs on until the loop ends.
SpecMain == InitMain /\ [][NextMain]_vars /\ WF_vars(NextMain)

----------------------------------------------------------------------------
(* What the claims are stated with: fields and bytes read off the file     *)

FileU16(f, off) == ByteAt(f, U(off)) + 256 * ByteAt(f, U(off + 1))

FileU32(f, off) == <<FileU16(f, off + 2), FileU16(f, off)>>

FileBytes(f, off, n) == Buf([k \in 1..n |-> ByteAt(f, U(off + k - 1))])

HasFullHeader(f) == Le(U(HeaderSize), f.len)

HeaderChecksumOk(f) == checksum(FileBytes(f, 0, CrcLen)) = FileU16(f, OffHeaderCrc)

LogoOk(f) == checksum(FileBytes(f, OffLogo, LogoLen)) = LOGO_CRC

MarkerAt(f, off) ==
    /\ Le(Add(off, U(2)), f.len)
    /\ ByteAt(f, off) = 97
    /\ ByteAt(f, Add(off, U(1))) = 99

IsDual(f) == ByteAt(f, U(OffUnitcode)) # 0

\* dual_rom_size for a dual-mode image; legacy_rom_size, plus 0x88 when the
\* marker is at that offset, for a legacy-only one.
RefTrimmedSize(f) ==
    IF IsDual(f) THEN FileU32(f, OffTwlRomSize)
    ELSE LET rom == FileU32(f, OffNtrRomSize)
         IN  IF MarkerAt(f, rom) THEN Add(rom, U(RSA_SIZE)) ELSE rom

\* g holds exactly the first n bytes of f.
ExactPrefix(g, f, n) ==
    /\ g.len = n
    /\ Le(n, f.len)
    /\ \A o \in DOMAIN g.data \cup DOMAIN f.data :
          Lt(o, n) => ByteAt(g, o) = ByteAt(f, o)
    /\ \A o \in DOMAIN g.data : Lt(o, n)

\* The last operation was open, on a file that exists.
Opened == last.op = "open" /\ last.path \in DOMAIN fs

----------------------------------------------------------------------------
(* Claims                                                                  *)

\* C1: for a file whose full 0x1000-byte header can be read, open fails with
\* BadHeader if and only if the checksum of bytes [0, 0x15E) differs from the
\* header_checksum field or the checksum of the logo differs from 0xCF56;
\* the logo_checksum field plays no part.
C1_BadHeaderIff ==
    (Opened /\ HasFullHeader(fs[last.path])) =>
        (last.res = "BadHeader" <=>
            (~HeaderChecksumOk(fs[last.path]) \/ ~LogoOk(fs[last.path])))

\* A header with the right header checksum is rejected for its logo alone,
\* though its logo_checksum field agrees with the logo it holds.
C1_Witness ==
    /\ Opened /\ HasFullHeader(fs[last.path])
    /\ last.res = "BadHeader"
    /\ HeaderChecksumOk(fs[last.path])
    /\ ~LogoOk(fs[last.path])
    /\ FileU16(fs[last.path], OffLogoCrc)
           = checksum(FileBytes(fs[last.path], OffLogo, LogoLen))

\* C2: after a successful open, trimmed_size is dual_rom_size for a dual-mode
\* image, with the handle still at the end of the header (no probe), and for
\* a legacy-only image legacy_rom_size, plus 0x88 when the marker is at that
\* offset, as a 64-bit sum.
C2_TrimmedSize ==
    (Opened /\ last.res = "Ok") =>
        /\ handle.trimmed_size = RefTrimmedSize(fs[last.path])
        /\ IsDual(fs[last.path]) => handle.pos = U(HeaderSize)

\* A legacy-only image declaring 0xFFFFFFFF with the marker opens with
\* trimmed_size 0x100000087.
C2_Witness ==
    /\ Opened /\ last.res = "Ok"
    /\ ~IsDual(fs[last.path])
    /\ FileU32(fs[last.path], OffNtrRomSize) = MaxU32
    /\ handle.trimmed_size = <<Limb, RSA_SIZE - 1>>

\* C3: a file with a valid header whose size is at most the trimmed size is
\* refused as already trimmed, and every handle has trimmed_size < file_size.
C3_AlreadyTrimmed ==
    /\ handle.live => Lt(handle.trimmed_size, handle.file_size)
    /\ (/\ Opened /\ HasFullHeader(fs[last.path])
        /\ Le(fs[last.path].len, RefTrimmedSize(fs[last.path]))
        /\ HeaderChecksumOk(fs[last.path]) /\ LogoOk(fs[last.path]))
           => last.res = "AlreadyTrimmed"

\* A legacy-only image with the marker, exactly as long as its trimmed size,
\* is refused as already trimmed.
C3_Witness ==
    /\ Opened /\ HasFullHeader(fs[last.path])
    /\ last.res = "AlreadyTrimmed"
    /\ MarkerAt(fs[last.path], FileU32(fs[last.path], OffNtrRomSize))
    /\ ~IsDual(fs[last.path])
    /\ fs[last.path].len = RefTrimmedSize(fs[last.path])

\* C4: when open fails as already trimmed, the file is no longer than the
\* trimmed size its header and contents determine.
C4_NoPadding ==
    (Opened /\ last.res = "AlreadyTrimmed") =>
        Le(fs[last.path].len, RefTrimmedSize(fs[last.path]))

\* A successful trim leaves exactly the first trimmed_size bytes the file
\* held, and does not grow the file.
C5_TrimStep ==
    (last'.op = "trim" /\ last'.res = "Ok") =>
        /\ ExactPrefix(fs'[handle.path], fs[handle.path], handle.trimmed_size)
        /\ Le(fs'[handle.path].len, fs[handle.path].len)
        /\ \A q \in DOMAIN fs : q # handle.path => fs'[q] = fs[q]

\* After a successful trim, trim on the same handle changes nothing.
C5_TrimAgain ==
    (handle.live /\ last.op = "trim" /\ last.res = "Ok") =>
        trim(fs, handle, FALSE).fs = fs

\* C5: a successful trim on a handle returned by open leaves the file with
\* exactly trimmed_size bytes, the first trimmed_size bytes it held before;
\* the file is never grown, and trimming again changes nothing.
C5_Trim == [][C5_TrimStep]_vars /\ []C5_TrimAgain

\* C6: for every destination, a successful trim_with_name leaves in the
\* destination exactly the first trimmed_size bytes of the source, and
\* leaves the source as it was.
C6_CopyKeepsSource ==
    [][(last'.op = "trim_with_name" /\ last'.res = "Ok") =>
          /\ ExactPrefix(fs'[last'.path], fs[handle.path], handle.trimmed_size)
          /\ fs'[handle.path] = fs[handle.path]]_vars

\* C7: once a file of the batch has been trimmed in place, a later open of
\* the same path fails as already trimmed.
C7_RetryAlreadyTrimmed ==
    \A j \in 1..Len(out) : \A k \in 1..Len(out) :
        (/\ j < k /\ cli.files[j] = cli.files[k]
         /\ cli.inplace /\ ~cli.simulate
         /\ out[j].stream = "stdout")
            => out[k] = ErrLine(cli.files[k], "AlreadyTrimmed")

\* One line has been printed for each path the loop has passed, in order:
\* for the path itself after a failure, for its destination otherwise.
C8_OneLinePerPath ==
    /\ idx \in 1..(Len(cli.files) + 1)
    /\ Len(out) = idx - 1
    /\ \A k \in 1..Len(out) :
          out[k].path = IF out[k].stream = "stderr" THEN cli.files[k]
                        ELSE main_dest(cli, cli.files[k])

\* C8: a failure on one path is reported for that path and does not end the
\* batch: every path is attempted once, in order, and the loop terminates.
C8_Batch == []C8_OneLinePerPath /\ <>(idx = Len(cli.files) + 1)

\* A batch of two has ended with a failure on its first path and a success
\* on its second.
C8_Witness ==
    /\ Len(cli.files) = 2 /\ idx = 3
    /\ out[1].stream = "stderr"
    /\ out[2].stream = "stdout"

\* Path p is the same in both file systems: absent, or the same file.
SameAt(f1, f2, p) ==
    /\ p \in DOMAIN f1 <=> p \in DOMAIN f2
    /\ p \in DOMAIN f1 => f1[p] = f2[p]

\* The loop body for files[k] run alone on the file system the batch
\* started on, with the same failure of set_len / create.
Alone(k) == main_body(fs0, cli, cli.files[k], env[k])

\* C9: for distinct paths, the line printed for each path and the final
\* content of its source and of its destination are those of processing the
\* path alone.
C9_Independent ==
    (/\ idx = Len(cli.files) + 1
     /\ \A j \in 1..Len(cli.files) : \A k \in 1..Len(cli.files) :
           j # k => cli.files[j] # cli.files[k])
        => \A k \in 1..Len(cli.files) :
              /\ out[k] = Alone(k).line
              /\ SameAt(fs, Alone(k).fs, cli.files[k])
              /\ SameAt(fs, Alone(k).fs, main_dest(cli, cli.files[k]))

\* C10: whatever the handle's position and whatever trims and copies came
\* before, a successful trim_with_name to another path writes exactly the
\* first trimmed_size bytes of the source, counted from offset 0.
C10_CopyFromStart ==
    [][(last'.op = "trim_with_name" /\ last'.res = "Ok") =>
          ExactPrefix(fs'[last'.path], fs[handle.path], handle.trimmed_size)]_vars

\* A copy was written after the source had been trimmed through the same
\* handle: it equals the source, and the handle stands at its end.
C10_Witness ==
    /\ handle.live /\ last.op = "trim_with_name" /\ last.res = "Ok"
    /\ fs[handle.path].len = handle.trimmed_size
    /\ Lt(handle.trimmed_size, handle.file_size)
    /\ fs[last.path] = fs[handle.path]
    /\ handle.pos = handle.trimmed_size

=============================================================================
